---- MODULE Spec2Model ----
(***************************************************************************)
(* A model of beancount.projects.returns: the period segmenter             *)
(* segment_periods() and the helpers it uses.  One run of the model is one *)
(* call of segment_periods(entries, accounts_assets, accounts_intflows,    *)
(* date_begin, date_end); the arguments are chosen in Init.                *)
(*                                                                         *)
(* Inventories are mutable Python objects: the model keeps them in a heap  *)
(* (a sequence of inventory values) and the program variables hold         *)
(* references (indices into the heap), so that aliasing is visible.        *)
(***************************************************************************)
EXTENDS Integers, Sequences, FiniteSets, TLC

\* ------------------------------------------------------------------ bounds
MaxEntries == 3
MaxDate == 3
MaxAmount == 2
MaxSpan == 2

\* ------------------------------------------------------------------ values
\* None, where a date is expected (dates are 1..MaxDate).
None == 0
NoError == "none"

Dates == 1..MaxDate
Currencies == {"USD", "GOOG"}

\* The three account names used by the entries of the model.
AccAssets == "Assets"
AccIncome == "Income"
AccChecking == "Checking"

Posting(account, number, currency) ==
    [account |-> account, position |-> [number |-> number, currency |-> currency]]

\* The shapes of directives the model draws its entry list from.  A
\* Transaction owns postings; any other directive (an Open, a Balance)
\* only names the accounts it is about.
Directive(kind) ==
    CASE kind = "dividend" ->
           [txn |-> TRUE, accounts |-> {},
            postings |-> <<Posting(AccAssets, 1, "USD"), Posting(AccIncome, -1, "USD")>>]
      [] kind = "deposit" ->
           [txn |-> TRUE, accounts |-> {},
            postings |-> <<Posting(AccAssets, 2, "USD"), Posting(AccChecking, -2, "USD")>>]
      [] kind = "mixed" ->
           [txn |-> TRUE, accounts |-> {},
            postings |-> <<Posting(AccAssets, 1, "GOOG"), Posting(AccIncome, 1, "GOOG"),
                           Posting(AccChecking, -2, "GOOG")>>]
      [] kind = "open" ->
           [txn |-> FALSE, accounts |-> {AccAssets}, postings |-> <<>>]
      [] kind = "other" ->
           [txn |-> TRUE, accounts |-> {},
            postings |-> <<Posting(AccIncome, -1, "USD"), Posting(AccChecking, 1, "USD")>>]

Kinds == {"dividend", "deposit", "mixed", "open", "other"}

Entry(date, kind) ==
    [date |-> date] @@ Directive(kind)

EntryChoices == {Entry(d, k) : d \in Dates, k \in Kinds}

\* Entry lists are chronologically ordered (the loader sorts them by date).
IsChronological(es) ==
    \A i \in 1..(Len(es) - 1) : es[i].date <= es[i + 1].date

EntryLists ==
    {es \in UNION {[1..n -> EntryChoices] : n \in 0..MaxEntries} : IsChronological(es)}

\* ------------------------------------------------------------- inventory
\* Inventory(): the empty inventory.
EmptyInventory == [c \in Currencies |-> 0]

\* Inventory.add_position: quantities of the same key are summed.
AddPosition(inv, pos) ==
    [inv EXCEPT ![pos.currency] = @ + pos.number]

\* getters.get_entry_accounts: the accounts a directive refers to.
GetEntryAccounts(e) ==
    IF e.txn THEN {e.postings[i].account : i \in 1..Len(e.postings)}
    ELSE e.accounts

\* ------------------------------------------------------------------ state
VARIABLES
    entries,            \* argument: the list of directives
    accounts_assets,    \* argument
    accounts_intflows,  \* argument
    date_begin,         \* argument: a date or None
    date_end,           \* argument: a date or None
    pc,                 \* position in segment_periods
    error,              \* the exception that ended the call, or NoError
    it,                 \* iter_entries: index of the last entry it yielded
    entry,              \* index in entries of the current entry (0: unbound)
    heap,               \* the Inventory objects allocated so far
    balance,            \* reference of the running balance (0: unbound)
    balance_begin,      \* reference (0: unbound)
    period_begin,       \* a date (None: unbound)
    period_end,         \* a date (None: unbound)
    done,
    periods,            \* the list of period tuples; the result when pc = "done"
    hist                \* history: what was consumed and snapshot, and when

vars == <<entries, accounts_assets, accounts_intflows, date_begin, date_end,
          pc, error, it, entry, heap, balance, balance_begin,
          period_begin, period_end, done, periods, hist>>

args == <<entries, accounts_assets, accounts_intflows, date_begin, date_end>>

\* The state of the functions that work on the periods.
VARIABLES
    mktvalue_begin,     \* compute_period_returns: positions valued at the beginning
    mktvalue_end,       \* compute_period_returns: positions valued at the end
    returns,            \* a dict of currency to return (argument or result)
    date_first,         \* annualize_returns: argument; compute_returns: result
    date_last,          \* annualize_returns: argument; compute_returns: result
    annual_returns,     \* annualize_returns: result
    price_map,          \* compute_returns: argument
    all_returns,        \* compute_returns: the list of the periods' returns
    total_returns,      \* compute_returns: result
    logged,             \* the messages given to logging.error
    related_regexp,     \* find_matching: the accounts the pattern matches
    matching_entries,   \* find_matching: result
    accounts_extflows   \* find_matching: result

pvars == <<mktvalue_begin, mktvalue_end, returns>>
avars == <<date_first, date_last, annual_returns>>
rvars == <<price_map, all_returns, total_returns, logged>>
mvars == <<related_regexp, matching_entries, accounts_extflows>>

\* The state of the display context and of its builder.
VARIABLES
    builder_infos,      \* DisplayContextBuilder: a dict of currency to its information
    dcontext,           \* the DisplayContext object (<<>>: not constructed)
    dhist               \* history: the calls made so far

dvars == <<builder_infos, dcontext, dhist>>

allvars == <<vars, pvars, avars, rvars, mvars, dvars>>

\* The values of variables a specification does not use.
PeriodIdle == mktvalue_begin = {} /\ mktvalue_end = {} /\ returns = <<>>
AnnualizeIdle == date_first = None /\ date_last = None /\ annual_returns = <<>>
ReturnsIdle == price_map = <<>> /\ all_returns = <<>> /\ total_returns = <<>> /\ logged = {}
MatchingIdle == related_regexp = {} /\ matching_entries = <<>> /\ accounts_extflows = {}
DisplayIdle == builder_infos = <<>> /\ dcontext = <<>> /\ dhist = <<>>

\* ---------------------------------------------------------------- helpers
\* sum_balances_for_accounts, on the value of the inventory.
RECURSIVE SumPostings(_, _, _, _)
SumPostings(inv, postings, accounts, i) ==
    IF i > Len(postings) THEN inv
    ELSE SumPostings(IF postings[i].account \in accounts
                     THEN AddPosition(inv, postings[i].position)
                     ELSE inv,
                     postings, accounts, i + 1)

SumBalancesAllPostings(inv, e, accounts) ==
    IF e.txn THEN SumPostings(inv, e.postings, GetEntryAccounts(e), 1) ELSE inv

SumBalancesForAccounts(inv, e, accounts) ==
    IF e.txn THEN SumPostings(inv, e.postings, accounts, 1) ELSE inv

\* is_external_flow_entry
IsExternalFlowEntry(e) ==
    /\ e.txn
    /\ \E i \in 1..Len(e.postings) :
          e.postings[i].account \notin (accounts_assets \cup accounts_intflows)

\* The filter of iter_entries.
IsRelevant(e) == GetEntryAccounts(e) \cap accounts_assets /= {}

\* An iterator that yields its last entry again.
NextEntryAgain(i) ==
    LET again == {j \in i..Len(entries) : j >= 1 /\ IsRelevant(entries[j])}
    IN IF again = {} THEN 0 ELSE CHOOSE j \in again : \A k \in again : j <= k

\* next(iter_entries) after the entry at index i: the index of the next entry
\* the generator yields, 0 when it raises StopIteration.
NextEntry(i) ==
    LET later == {j \in (i + 1)..Len(entries) : IsRelevant(entries[j])}
    IN IF later = {} THEN 0 ELSE CHOOSE j \in later : \A k \in later : j <= k

\* copy.copy(balance): a new Inventory object with the same positions.
CopyOf(ref) == Append(heap, heap[ref])

Period(b, e, bb, be) ==
    [begin_date |-> b, end_date |-> e, balance_begin |-> bb, balance_end |-> be]

\* History records.
Consumed(phase) == [idx |-> entry, phase |-> phase, nper |-> Len(periods)]

\* ------------------------------------------------------------------- Init
\* The state at the call of segment_periods.
Init ==
    /\ entries \in EntryLists
    /\ accounts_assets = {AccAssets}
    /\ accounts_intflows = {AccIncome}
    /\ date_begin \in Dates \cup {None}
    /\ date_end \in Dates \cup {None}
    /\ pc = "start"
    /\ error = NoError
    /\ it = 0
    /\ entry = 0
    /\ heap = <<>>
    /\ balance = 0
    /\ balance_begin = 0
    /\ period_begin = None
    /\ period_end = None
    /\ done = FALSE
    /\ periods = <<>>
    /\ hist = [log |-> <<>>, snap_begin |-> EmptyInventory, snaps |-> <<>>, pkind |-> <<>>]
    /\ PeriodIdle /\ AnnualizeIdle /\ ReturnsIdle /\ MatchingIdle /\ DisplayIdle

\* ----------------------------------------------------------------- actions
\* The check of the dates.
CheckDatesStrict ==
    /\ pc = "start"
    /\ IF date_begin /= None /\ date_end /= None /\ date_begin > date_end
       THEN /\ pc' = "raised"
            /\ error' = "ValueError"
       ELSE /\ pc' = "first"
            /\ UNCHANGED error
    /\ UNCHANGED <<args, it, entry, heap, balance, balance_begin,
                   period_begin, period_end, done, periods, hist>>

CheckDates ==
    /\ pc = "start"
    /\ IF date_begin /= None /\ date_end /= None /\ date_begin >= date_end
       THEN /\ pc' = "raised"
            /\ error' = "ValueError"
       ELSE /\ pc' = "first"
            /\ UNCHANGED error
    /\ UNCHANGED <<args, it, entry, heap, balance, balance_begin,
                   period_begin, period_end, done, periods, hist>>

\* The first next(iter_entries), the empty running balance, and the choice of
\* period_begin.  A StopIteration of the first next() is not caught.
FirstBody(n) ==
    /\ pc = "first"
    /\ IF n = 0
       THEN /\ pc' = "raised"
            /\ error' = "StopIteration"
            /\ it' = Len(entries)
            /\ UNCHANGED <<entry, heap, balance, period_begin>>
       ELSE /\ entry' = n
            /\ it' = n
            /\ heap' = Append(heap, EmptyInventory)
            /\ balance' = Len(heap) + 1
            /\ IF date_begin /= None
               THEN /\ period_begin' = date_begin
                    /\ pc' = "skip"
               ELSE /\ period_begin' = entries[n].date
                    /\ pc' = "main"
            /\ UNCHANGED error
    /\ UNCHANGED <<args, balance_begin, period_end, done, periods, hist>>

FirstEntryUnfiltered == FirstBody(IF entries = <<>> THEN 0 ELSE 1)

FirstEntry == FirstBody(NextEntry(it))

\* One iteration of the loop that skips the entries before date_begin.
SkipBody(atbegin, end_date) ==
    /\ pc = "skip"
    /\ LET e == entries[entry] IN
       IF atbegin \/ (date_end /= None /\ e.date >= date_end)
       THEN /\ pc' = "main"
            /\ UNCHANGED <<it, entry, heap, periods, hist>>
       ELSE LET n == NextEntry(it) IN
            /\ heap' = [heap EXCEPT ![balance] =
                            SumBalancesForAccounts(@, e, accounts_assets)]
            /\ IF n = 0
               THEN /\ it' = Len(entries)
                    /\ periods' = <<Period(date_begin, end_date, balance, balance)>>
                    /\ hist' = [hist EXCEPT
                                  !.log = Append(@, Consumed("skip")),
                                  !.snaps = <<[bb |-> heap'[balance], be |-> heap'[balance]]>>,
                                  !.pkind = <<"degenerate">>]
                    /\ pc' = "done"
                    /\ UNCHANGED entry
               ELSE /\ it' = n
                    /\ entry' = n
                    /\ hist' = [hist EXCEPT !.log = Append(@, Consumed("skip"))]
                    /\ pc' = "skip"
                    /\ UNCHANGED periods
    /\ UNCHANGED <<args, error, balance, balance_begin, period_begin, period_end, done>>

\* date_end or date_begin
DateEndOr(d) == IF date_end /= None THEN date_end ELSE d

SkipStepAfter == SkipBody(entries[entry].date > date_begin, DateEndOr(date_begin))

SkipStepNoDefault == SkipBody(entries[entry].date >= date_begin, date_end)

SkipStep == SkipBody(entries[entry].date >= date_begin, DateEndOr(date_begin))

\* The head of the main loop: the snapshot of the balance at the beginning.
LoopHeadAliased ==
    /\ pc = "main"
    /\ balance_begin' = balance
    /\ hist' = [hist EXCEPT !.snap_begin = heap[balance]]
    /\ pc' = "inner"
    /\ UNCHANGED <<args, error, it, entry, heap, balance, period_begin, period_end,
                   done, periods>>

LoopHead ==
    /\ pc = "main"
    /\ heap' = CopyOf(balance)
    /\ balance_begin' = Len(heap) + 1
    /\ hist' = [hist EXCEPT !.snap_begin = heap[balance]]
    /\ pc' = "inner"
    /\ UNCHANGED <<args, error, it, entry, balance, period_begin, period_end,
                   done, periods>>

\* One iteration of the inner loop, which consumes the entries without
\* external flow.
InnerBody(e, isext) ==
    /\ pc = "inner"
    /\ IF isext
       THEN /\ period_end' = e.date
            /\ pc' = "close"
            /\ UNCHANGED <<it, entry, heap, done, hist>>
       ELSE IF date_end /= None /\ e.date >= date_end
       THEN /\ period_end' = date_end
            /\ done' = TRUE
            /\ pc' = "close"
            /\ UNCHANGED <<it, entry, heap, hist>>
       ELSE LET n == NextEntry(it) IN
            /\ heap' = [heap EXCEPT ![balance] =
                            SumBalancesForAccounts(@, e, accounts_assets)]
            /\ hist' = [hist EXCEPT !.log = Append(@, Consumed("inner"))]
            /\ IF n = 0
               THEN /\ it' = Len(entries)
                    /\ done' = TRUE
                    /\ period_end' = IF date_end /= None THEN date_end ELSE e.date
                    /\ pc' = "close"
                    /\ UNCHANGED entry
               ELSE /\ it' = n
                    /\ entry' = n
                    /\ period_end' = e.date
                    /\ pc' = "inner"
                    /\ UNCHANGED done
    /\ UNCHANGED <<args, error, balance, balance_begin, period_begin, periods>>

InnerStepNoFlowCheck == InnerBody(entries[entry], FALSE)

InnerStep == InnerBody(entries[entry], IsExternalFlowEntry(entries[entry]))

\* The end of a period: the snapshot of the balance at the end, and the
\* period appended to the list.
CloseBody(isdone) ==
    /\ pc = "close"
    /\ heap' = CopyOf(balance)
    /\ periods' = Append(periods, Period(period_begin, period_end,
                                         balance_begin, Len(heap) + 1))
    /\ hist' = [hist EXCEPT
                  !.snaps = Append(@, [bb |-> hist.snap_begin, be |-> heap[balance]]),
                  !.pkind = Append(@, "main")]
    /\ pc' = IF isdone THEN "done" ELSE "absorb"
    /\ UNCHANGED <<args, error, it, entry, balance, balance_begin,
                   period_begin, period_end, done>>

ClosePeriodNeverDone == CloseBody(FALSE)

ClosePeriod == CloseBody(done)

\* The external flow entry that ended the period is added to the balance.
AbsorbBody(nextbegin) ==
    /\ pc = "absorb"
    /\ IF ~IsExternalFlowEntry(entries[entry])
       THEN /\ pc' = "raised"
            /\ error' = "AssertionError"
            /\ UNCHANGED <<it, entry, heap, period_begin, periods, hist>>
       ELSE LET n == NextEntry(it) IN
            /\ heap' = [heap EXCEPT ![balance] =
                            SumBalancesForAccounts(@, entries[entry], accounts_assets)]
            /\ UNCHANGED error
            /\ IF n = 0
               THEN /\ it' = Len(entries)
                    /\ IF date_end /= None
                       THEN /\ periods' = Append(periods,
                                                 Period(period_end, date_end, balance, balance))
                            /\ hist' = [hist EXCEPT
                                          !.log = Append(@, Consumed("absorb")),
                                          !.snaps = Append(@, [bb |-> heap'[balance],
                                                               be |-> heap'[balance]]),
                                          !.pkind = Append(@, "final")]
                       ELSE /\ hist' = [hist EXCEPT !.log = Append(@, Consumed("absorb"))]
                            /\ UNCHANGED periods
                    /\ pc' = "done"
                    /\ UNCHANGED <<entry, period_begin>>
               ELSE /\ it' = n
                    /\ entry' = n
                    /\ hist' = [hist EXCEPT !.log = Append(@, Consumed("absorb"))]
                    /\ period_begin' = IF nextbegin THEN entries[n].date ELSE period_end
                    /\ pc' = "main"
                    /\ UNCHANGED periods
    /\ UNCHANGED <<args, balance, balance_begin, period_end, done>>

AbsorbNextDate == AbsorbBody(TRUE)

Absorb == AbsorbBody(FALSE)

\* ------------------------------------------------------------ specification
\* One call of segment_periods; the other functions are not running.
Next ==
    \/ CheckDates /\ UNCHANGED <<pvars, avars, rvars, mvars, dvars>>
    \/ FirstEntry /\ UNCHANGED <<pvars, avars, rvars, mvars, dvars>>
    \/ SkipStep /\ UNCHANGED <<pvars, avars, rvars, mvars, dvars>>
    \/ LoopHead /\ UNCHANGED <<pvars, avars, rvars, mvars, dvars>>
    \/ InnerStep /\ UNCHANGED <<pvars, avars, rvars, mvars, dvars>>
    \/ ClosePeriod /\ UNCHANGED <<pvars, avars, rvars, mvars, dvars>>
    \/ Absorb /\ UNCHANGED <<pvars, avars, rvars, mvars, dvars>>

Spec == Init /\ [][Next]_allvars

\* ------------------------------------------------- reference definitions
\* What the result is compared with: sums of asset-account postings taken
\* directly over the entry list.
RelevantIdx == {i \in 1..Len(entries) : IsRelevant(entries[i])}

RelevantBefore(d) == {i \in RelevantIdx : entries[i].date < d}

RECURSIVE PostingsTotal(_, _, _)
PostingsTotal(ps, accts, c) ==
    IF ps = <<>> THEN 0
    ELSE (IF Head(ps).account \in accts /\ Head(ps).position.currency = c
          THEN Head(ps).position.number ELSE 0)
         + PostingsTotal(Tail(ps), accts, c)

RECURSIVE EntriesTotal(_, _)
EntriesTotal(S, c) ==
    IF S = {} THEN 0
    ELSE LET i == CHOOSE j \in S : TRUE
         IN (IF entries[i].txn
             THEN PostingsTotal(entries[i].postings, accounts_assets, c) ELSE 0)
            + EntriesTotal(S \ {i}, c)

AssetSum(S) == [c \in Currencies |-> EntriesTotal(S, c)]

Plus(inv1, inv2) == [c \in Currencies |-> inv1[c] + inv2[c]]

FirstRelevantDate ==
    IF RelevantIdx = {} THEN None
    ELSE entries[CHOOSE i \in RelevantIdx : \A j \in RelevantIdx : i <= j].date

LastRelevantDate ==
    IF RelevantIdx = {} THEN None
    ELSE entries[CHOOSE i \in RelevantIdx : \A j \in RelevantIdx : i >= j].date

LogIdx(phase, nper) ==
    {hist.log[k].idx : k \in {k \in 1..Len(hist.log) :
                                 hist.log[k].phase = phase /\ hist.log[k].nper = nper}}

LogCount(nper) ==
    Cardinality({k \in 1..Len(hist.log) : hist.log[k].nper = nper})

Returned == pc = "done"

NumPeriods == Len(periods)

\* ------------------------------------------------------------------ claims
\* C1: consecutive periods are contiguous: periods[i].end_date equals
\* periods[i+1].begin_date for every i, the final no-op period included.
C1_Contiguous ==
    \A i \in 1..(NumPeriods - 1) : periods[i].end_date = periods[i + 1].begin_date

C1_Witness ==
    /\ Returned
    /\ NumPeriods >= 3
    /\ hist.pkind[NumPeriods] = "final"

\* C2: every returned period has begin_date <= end_date and, when date_end is
\* given, no period begins or ends after date_end.
C2_WithinRange ==
    Returned =>
        \A i \in 1..NumPeriods :
            /\ periods[i].begin_date <= periods[i].end_date
            /\ date_end /= None =>
                  /\ periods[i].begin_date <= date_end
                  /\ periods[i].end_date <= date_end

C4_NoExternalFlowInside ==
    \A k \in 1..NumPeriods :
        hist.pkind[k] = "main" =>
            LET inside == LogIdx("inner", k - 1) IN
            /\ \A i \in inside : ~IsExternalFlowEntry(entries[i])
            /\ heap[periods[k].balance_end] =
                  Plus(heap[periods[k].balance_begin], AssetSum(inside))

C4_Witness ==
    /\ Returned
    /\ \E k \in 1..NumPeriods :
          /\ hist.pkind[k] = "main"
          /\ LogIdx("inner", k - 1) /= {}
          /\ heap[periods[k].balance_end] /= heap[periods[k].balance_begin]
          /\ LogIdx("absorb", k) /= {}

\* C5: between the end of period i and the beginning of period i+1 exactly
\* one entry is added to the balance, the external-flow entry that closed
\* period i, and only its asset-account postings are added.
C5_BoundaryAbsorbed ==
    \A i \in 1..(NumPeriods - 1) :
        LET absorbed == LogIdx("absorb", i) IN
        /\ Cardinality(absorbed) = 1
        /\ \A j \in absorbed :
              /\ IsExternalFlowEntry(entries[j])
              /\ entries[j].date = periods[i].end_date
        /\ heap[periods[i + 1].balance_begin] =
              Plus(heap[periods[i].balance_end], AssetSum(absorbed))

C5_Witness ==
    /\ Returned
    /\ NumPeriods >= 2
    /\ \E j \in LogIdx("absorb", 1) :
          \E p \in 1..Len(entries[j].postings) :
              entries[j].postings[p].account \in accounts_intflows

\* C6: the balances of an emitted period keep the value the running balance
\* had when the snapshot was taken, whatever is added to the running balance
\* later.
C6_SnapshotsIndependent ==
    \A k \in 1..NumPeriods :
        /\ heap[periods[k].balance_begin] = hist.snaps[k].bb
        /\ heap[periods[k].balance_end] = hist.snaps[k].be

C6_Witness ==
    /\ Returned
    /\ NumPeriods >= 2
    /\ heap[periods[1].balance_begin] /= heap[periods[1].balance_end]
    /\ heap[periods[1].balance_end] /= heap[balance]

\* C7: with date_end given, no entry dated on or after date_end is consumed,
\* and the last balance_end is the sum of the asset postings of the relevant
\* entries dated strictly before date_end.
C7_NothingConsumedFromEnd ==
    (Returned /\ date_end /= None) =>
        /\ \A k \in 1..Len(hist.log) : entries[hist.log[k].idx].date < date_end
        /\ heap[periods[NumPeriods].balance_end] = AssetSum(RelevantBefore(date_end))

\* C8: with date_begin given, the first balance_begin is the sum of the asset
\* postings of the relevant entries dated strictly before date_begin and no
\* period is emitted for them; without date_begin it is the empty inventory.
C8_InitialBalance ==
    /\ pc = "skip" => periods = <<>>
    /\ \A k \in 1..Len(hist.log) :
          hist.log[k].phase = "skip" =>
              /\ hist.log[k].nper = 0
              /\ entries[hist.log[k].idx].date < date_begin
    /\ NumPeriods >= 1 =>
          /\ heap[periods[1].balance_begin] =
                (IF date_begin /= None THEN AssetSum(RelevantBefore(date_begin))
                 ELSE EmptyInventory)
          /\ date_begin /= None =>
                \A k \in 1..NumPeriods : periods[k].begin_date >= date_begin

C8_Witness ==
    /\ Returned
    /\ date_begin /= None
    /\ hist.pkind[1] = "main"
    /\ AssetSum(RelevantBefore(date_begin)) /= EmptyInventory
    /\ \E i \in RelevantIdx : entries[i].date = date_begin /\ entries[i].txn

\* C9: with both dates given and date_begin >= date_end the call fails with
\* the ordering error, and nothing has been read, accumulated or emitted.
C9_FailsFast ==
    (date_begin /= None /\ date_end /= None /\ date_begin >= date_end) =>
        /\ pc \in {"start", "raised"}
        /\ pc = "raised" => error = "ValueError"
        /\ it = 0
        /\ entry = 0
        /\ heap = <<>>
        /\ periods = <<>>
        /\ hist.log = <<>>

C9_Witness ==
    /\ pc = "raised"
    /\ error = "ValueError"
    /\ date_begin = date_end
    /\ RelevantIdx /= {}

C11_EmptyStreamDegenerate ==
    (/\ date_begin /= None
     /\ date_end /= None => date_begin < date_end
     /\ RelevantIdx = {}) =>
        /\ pc /= "raised"
        /\ error = NoError
        /\ Returned =>
              /\ NumPeriods = 1
              /\ periods[1].begin_date = date_begin
              /\ periods[1].end_date = DateEndOr(date_begin)
              /\ heap[periods[1].balance_begin] = EmptyInventory
              /\ heap[periods[1].balance_end] = EmptyInventory

\* ======================================================================
\* compute_period_returns
\* ======================================================================
\* A return is a ratio of two decimal numbers made a float; the model keeps
\* it as a fraction in lowest terms with a positive denominator.
Abs(n) == IF n < 0 THEN 0 - n ELSE n

RECURSIVE Gcd(_, _)
Gcd(a, b) == IF b = 0 THEN a ELSE Gcd(b, a % b)

Ratio(n, d) ==
    LET g == Gcd(Abs(n), Abs(d))
        sgn == IF d < 0 THEN 0 - 1 ELSE 1
    IN [num |-> (sgn * n) \div g, den |-> (sgn * d) \div g]

\* The float 1.0
One == [num |-> 1, den |-> 1]

\* The segmenter is not running.
SegmentIdle ==
    /\ entries = <<>>
    /\ accounts_assets = {}
    /\ accounts_intflows = {}
    /\ date_begin = None
    /\ date_end = None
    /\ it = 0
    /\ entry = 0
    /\ heap = <<>>
    /\ balance = 0
    /\ balance_begin = 0
    /\ period_begin = None
    /\ period_end = None
    /\ done = FALSE
    /\ periods = <<>>
    /\ hist = [log |-> <<>>, snap_begin |-> EmptyInventory, snaps |-> <<>>, pkind |-> <<>>]

\* The positions of an inventory valued at market value: a position has a
\* currency, a number and a cost (pos.lot.cost) when it could not be reduced;
\* an inventory holds one position for a currency and cost.
Amounts == (0 - 1)..MaxAmount

PositionKeys == {<<"USD", FALSE>>, <<"GOOG", FALSE>>, <<"GOOG", TRUE>>}

MarketValues ==
    UNION {{{[currency |-> k[1], cost |-> k[2], number |-> f[k]] : k \in held} :
              f \in [held -> Amounts]} : held \in SUBSET PositionKeys}

InitPeriod ==
    /\ SegmentIdle /\ AnnualizeIdle /\ ReturnsIdle /\ MatchingIdle /\ DisplayIdle
    /\ pc = "period"
    /\ error = NoError
    /\ mktvalue_begin \in MarketValues
    /\ mktvalue_end \in MarketValues
    /\ returns = <<>>

\* The positions without cost, by currency (single_begin, single_end).
FlatPositions(mktvalue) == {pos \in mktvalue : ~pos.cost}

SingleCostAsZero(mktvalue) ==
    [c \in {pos.currency : pos \in mktvalue} |->
        IF \E pos \in FlatPositions(mktvalue) : pos.currency = c
        THEN (CHOOSE pos \in FlatPositions(mktvalue) : pos.currency = c).number
        ELSE 0]

Single(mktvalue) ==
    [c \in {pos.currency : pos \in FlatPositions(mktvalue)} |->
        (CHOOSE pos \in FlatPositions(mktvalue) : pos.currency = c).number]

\* assert pos.lot.currency not in single
SingleAssertFails(mktvalue) ==
    \E p, q \in FlatPositions(mktvalue) : p /= q /\ p.currency = q.currency

\* logging.error('Could not reduce position "%s" to its value', pos)
CouldNotReduce(mktvalue, at) ==
    {[msg |-> "Could not reduce position", pos |-> pos, at |-> at] :
        pos \in {q \in mktvalue : q.cost}}

\* single.get(currency, ZERO)
Get(single, c) == IF c \in DOMAIN single THEN single[c] ELSE 0

\* The return of one currency.
ReturnOfNoGuard(begin, end) ==
    IF begin = 0 THEN Ratio(0, 1) ELSE Ratio(end, begin)

ReturnOf(begin, end) ==
    IF begin = 0 THEN One ELSE Ratio(end, begin)

PeriodReturns(single_begin, single_end) ==
    [c \in DOMAIN single_begin \cup DOMAIN single_end |->
        ReturnOf(Get(single_begin, c), Get(single_end, c))]

\* compute_period_returns, from the inventories at market value on.
PeriodBody(single_begin, single_end) ==
    /\ pc = "period"
    /\ logged' = logged \cup CouldNotReduce(mktvalue_begin, "begin")
                        \cup CouldNotReduce(mktvalue_end, "end")
    /\ IF SingleAssertFails(mktvalue_begin) \/ SingleAssertFails(mktvalue_end)
       THEN /\ pc' = "raised"
            /\ error' = "AssertionError"
            /\ UNCHANGED returns
       ELSE /\ returns' = PeriodReturns(single_begin, single_end)
            /\ pc' = "period_done"
            /\ UNCHANGED error
    /\ UNCHANGED <<mktvalue_begin, mktvalue_end>>

ComputePeriodReturnsCostAsZero ==
    PeriodBody(SingleCostAsZero(mktvalue_begin), SingleCostAsZero(mktvalue_end))

ComputePeriodReturns ==
    PeriodBody(Single(mktvalue_begin), Single(mktvalue_end))

segvars == <<args, it, entry, heap, balance, balance_begin, period_begin, period_end,
             done, periods, hist>>

NextPeriod ==
    ComputePeriodReturns
        /\ UNCHANGED <<segvars, avars, price_map, all_returns, total_returns, mvars, dvars>>

SpecPeriod == InitPeriod /\ [][NextPeriod]_allvars

\* ---------------------------------------------------------------- claims
\* The amount without cost of a currency at a boundary (0: none).
FlatAmount(mktvalue, c) ==
    IF \E pos \in mktvalue : ~pos.cost /\ pos.currency = c
    THEN (CHOOSE pos \in mktvalue : ~pos.cost /\ pos.currency = c).number
    ELSE 0

FlatCurrencies(mktvalue) == {pos.currency : pos \in {q \in mktvalue : ~q.cost}}

PeriodReturned == pc = "period_done"

\* C12: compute_period_returns gives a return for every currency valued at
\* either boundary: 1.0 when the beginning value is zero or absent, and
\* otherwise end / begin, an absent ending value counting as zero.
C12_PeriodReturn ==
    PeriodReturned =>
        /\ DOMAIN returns = FlatCurrencies(mktvalue_begin) \cup FlatCurrencies(mktvalue_end)
        /\ \A c \in DOMAIN returns :
              LET b == FlatAmount(mktvalue_begin, c)
                  e == FlatAmount(mktvalue_end, c)
              IN /\ b = 0 => returns[c] = One
                 /\ b /= 0 => /\ returns[c].num * b = returns[c].den * e
                              /\ returns[c].den > 0

C12_Witness ==
    /\ PeriodReturned
    /\ \E c \in DOMAIN returns :
          /\ FlatAmount(mktvalue_begin, c) = 2
          /\ c \notin FlatCurrencies(mktvalue_end)
          /\ returns[c] = Ratio(0, 1)
    /\ \E c \in DOMAIN returns :
          /\ c \notin FlatCurrencies(mktvalue_begin)
          /\ FlatAmount(mktvalue_end, c) = 2
          /\ returns[c] = One

\* C13: a position that still has a cost is left out and is not a zero
\* amount: the call does not fail, no currency is reported because of it, and
\* the returns are those of the inventories without the positions at cost.
WithoutCost(mktvalue) == {pos \in mktvalue : ~pos.cost}

C13_CostPositionsExcluded ==
    /\ (pc \in {"period", "period_done"} /\ error = NoError)
    /\ PeriodReturned =>
          /\ DOMAIN returns =
                FlatCurrencies(mktvalue_begin) \cup FlatCurrencies(mktvalue_end)
          /\ returns = PeriodReturns(Single(WithoutCost(mktvalue_begin)),
                                     Single(WithoutCost(mktvalue_end)))
          /\ \A m \in logged : m.pos.cost
          /\ \A pos \in mktvalue_begin \cup mktvalue_end :
                pos.cost => \E m \in logged : m.pos = pos

C13_Witness ==
    /\ PeriodReturned
    /\ \E pos \in mktvalue_begin : pos.cost /\ pos.currency \notin DOMAIN returns
    /\ \E pos \in mktvalue_end : ~pos.cost /\ pos.number /= 0
    /\ logged /= {}
    /\ returns /= <<>>

\* ======================================================================
\* annualize_returns
\* ======================================================================
DaysPerYear == 365

\* return_ ** exponent on floats: x ** 1.0 is x and 1.0 ** y is 1.0; any
\* other power is kept as the pair of its base and exponent.
Pow(r, exponent) ==
    IF exponent = One THEN r
    ELSE IF r = One THEN One
    ELSE [base |-> r, exponent |-> exponent]

\* The returns given to annualize_returns.
ReturnValues == {Ratio(e, b) : e \in 0..MaxAmount, b \in 1..MaxAmount}

ReturnDicts == UNION {[cs -> ReturnValues] : cs \in SUBSET Currencies}

\* The numbers of days from date_first to date_last.
Spans == ((0 - 1)..MaxSpan) \cup {DaysPerYear - 1, DaysPerYear}

InitAnnualize ==
    /\ SegmentIdle /\ ReturnsIdle /\ MatchingIdle /\ DisplayIdle
    /\ mktvalue_begin = {} /\ mktvalue_end = {}
    /\ pc = "annualize"
    /\ error = NoError
    /\ returns \in ReturnDicts
    /\ date_first \in Dates
    /\ date_last \in {date_first + n : n \in Spans}
    /\ annual_returns = <<>>

\* The exception annualize_returns ends with (NoError: it returns).
AnnualizeError(rets, num_days, checked) ==
    IF checked /\ num_days = 0 /\ \E c \in DOMAIN rets : rets[c] /= One
    THEN "ValueError"
    ELSE IF num_days /= 0 /\ \E c \in DOMAIN rets :
                                 rets[c].num = 0 /\ Ratio(DaysPerYear, num_days).num < 0
    THEN "ZeroDivisionError"
    ELSE NoError

\* The dict annualize_returns returns.
Annualized(rets, num_days) ==
    LET exponent == IF num_days = 0 THEN One ELSE Ratio(DaysPerYear, num_days)
    IN [c \in DOMAIN rets |-> Pow(rets[c], exponent)]

AnnualizeBody(num_days, checked) ==
    /\ pc = "annualize"
    /\ IF AnnualizeError(returns, num_days, checked) /= NoError
       THEN /\ pc' = "raised"
            /\ error' = AnnualizeError(returns, num_days, checked)
            /\ UNCHANGED annual_returns
       ELSE /\ annual_returns' = Annualized(returns, num_days)
            /\ pc' = "annualize_done"
            /\ UNCHANGED error
    /\ UNCHANGED <<returns, date_first, date_last>>

AnnualizeUnchecked == AnnualizeBody(date_last - date_first, FALSE)

AnnualizeInclusiveDays == AnnualizeBody(date_last - date_first + 1, TRUE)

AnnualizeReturns == AnnualizeBody(date_last - date_first, TRUE)

NextAnnualize ==
    AnnualizeReturns
        /\ UNCHANGED <<segvars, mktvalue_begin, mktvalue_end, rvars, mvars, dvars>>

SpecAnnualize == InitAnnualize /\ [][NextAnnualize]_allvars

\* ---------------------------------------------------------------- claims
NumDays == date_last - date_first

AllOne == \A c \in DOMAIN returns : returns[c] = One

\* C15: over a zero-day span annualize_returns fails with the invalid-period
\* error when a return differs from 1.0, before any result is produced, and
\* returns every value unchanged when all returns are 1.0.
C15_ZeroDaySpan ==
    (NumDays = 0 /\ pc /= "annualize") =>
        IF AllOne
        THEN pc = "annualize_done" /\ error = NoError /\ annual_returns = returns
        ELSE pc = "raised" /\ error = "ValueError" /\ annual_returns = <<>>

C15_WitnessRaised ==
    /\ NumDays = 0
    /\ pc = "raised"
    /\ error = "ValueError"
    /\ \E c \in DOMAIN returns : returns[c] = One
    /\ \E c \in DOMAIN returns : returns[c] /= One

\* C16: over a span of exactly 365 days every return is returned unchanged,
\* and over any span the result has the currencies of the argument.
C16_YearUnchanged ==
    pc = "annualize_done" =>
        /\ DOMAIN annual_returns = DOMAIN returns
        /\ NumDays = DaysPerYear => annual_returns = returns

C16_Witness ==
    /\ pc = "annualize_done"
    /\ NumDays = DaysPerYear
    /\ Cardinality(DOMAIN returns) = 2
    /\ \E c \in DOMAIN returns : returns[c] = Ratio(1, 2)
    /\ \E c \in DOMAIN returns : returns[c] = Ratio(0, 1)

\* ======================================================================
\* find_matching
\* ======================================================================
Accounts == {AccAssets, AccIncome, AccChecking}

\* re.compile(related_regexp).match: the pattern is kept as the set of the
\* account names it matches.
Match(account) == account \in related_regexp

\* account_types.is_income_statement_account
IsIncomeStatementAccount(account) == account = AccIncome

PostingAccounts(e) == {e.postings[i].account : i \in 1..Len(e.postings)}

InitMatching ==
    /\ entries \in EntryLists
    /\ related_regexp \in SUBSET Accounts
    /\ accounts_assets = {}
    /\ accounts_intflows = {}
    /\ accounts_extflows = {}
    /\ matching_entries = <<>>
    /\ it = 0
    /\ pc = "matching"
    /\ error = NoError
    /\ date_begin = None /\ date_end = None
    /\ entry = 0 /\ heap = <<>> /\ balance = 0 /\ balance_begin = 0
    /\ period_begin = None /\ period_end = None /\ done = FALSE /\ periods = <<>>
    /\ hist = [log |-> <<>>, snap_begin |-> EmptyInventory, snaps |-> <<>>, pkind |-> <<>>]
    /\ PeriodIdle /\ AnnualizeIdle /\ ReturnsIdle /\ DisplayIdle

\* One iteration of the loop over the entries.
MatchBody(e, unguarded, extalways) ==
    /\ pc = "matching"
    /\ it < Len(entries)
    /\ it' = it + 1
    /\ IF e.txn /\ (unguarded \/ \E a \in PostingAccounts(e) : Match(a))
       THEN /\ matching_entries' = Append(matching_entries, e)
            /\ accounts_intflows' = accounts_intflows \cup
                  {a \in PostingAccounts(e) : Match(a) /\ IsIncomeStatementAccount(a)}
            /\ accounts_assets' = accounts_assets \cup
                  {a \in PostingAccounts(e) : Match(a) /\ ~IsIncomeStatementAccount(a)}
            /\ accounts_extflows' = accounts_extflows \cup
                  {a \in PostingAccounts(e) : extalways \/ ~Match(a)}
       ELSE UNCHANGED <<matching_entries, accounts_intflows, accounts_assets,
                        accounts_extflows>>
    /\ UNCHANGED <<entries, related_regexp, pc, error>>

MatchEntryUnguarded == MatchBody(entries[it + 1], TRUE, FALSE)

MatchEntryExtAlways == MatchBody(entries[it + 1], FALSE, TRUE)

MatchEntry == MatchBody(entries[it + 1], FALSE, FALSE)

\* The end of the loop: the return.
ReturnMatching ==
    /\ pc = "matching"
    /\ it = Len(entries)
    /\ pc' = "matching_done"
    /\ UNCHANGED <<entries, related_regexp, it, error, matching_entries,
                   accounts_intflows, accounts_assets, accounts_extflows>>

matchunused == <<date_begin, date_end, entry, heap, balance, balance_begin,
                 period_begin, period_end, done, periods, hist, pvars, avars, rvars, dvars>>

NextMatching ==
    \/ MatchEntry /\ UNCHANGED matchunused
    \/ ReturnMatching /\ UNCHANGED matchunused

SpecMatching == InitMatching /\ [][NextMatching]_allvars

\* ---------------------------------------------------------------- claims
\* A Transaction with a posting on an account the pattern matches.
IsMatchingEntry(e) == e.txn /\ \E i \in 1..Len(e.postings) : e.postings[i].account \in related_regexp

\* The accounts of the matching transactions among the first n entries.
MatchedAccounts(n) ==
    UNION {PostingAccounts(entries[i]) : i \in {j \in 1..n : IsMatchingEntry(entries[j])}}

\* C17: after any prefix of the entries, matching_entries are the matching
\* transactions in order; a matching account of them is an internal flow iff
\* it is an income statement account and else an asset, an account of them
\* that does not match is an external flow, and no other account is in a set.
C17_Classification ==
    /\ matching_entries = SelectSeq(SubSeq(entries, 1, it), IsMatchingEntry)
    /\ accounts_intflows =
          {a \in MatchedAccounts(it) : a \in related_regexp /\ a = AccIncome}
    /\ accounts_assets =
          {a \in MatchedAccounts(it) : a \in related_regexp /\ a /= AccIncome}
    /\ accounts_extflows = {a \in MatchedAccounts(it) : a \notin related_regexp}
    /\ (accounts_intflows \cup accounts_assets \cup accounts_extflows) = MatchedAccounts(it)

C17_Witness ==
    /\ pc = "matching_done"
    /\ Len(matching_entries) = 1
    /\ \E i \in 1..Len(entries) : ~entries[i].txn
    /\ \E i \in 1..Len(entries) :
          /\ entries[i].txn
          /\ ~IsMatchingEntry(entries[i])
          /\ \E a \in PostingAccounts(entries[i]) :
                a \notin (accounts_intflows \cup accounts_assets \cup accounts_extflows)
    /\ accounts_assets /= {}

\* C18: after any prefix of the entries the three sets of accounts are
\* pairwise disjoint.
C18_Disjoint ==
    /\ accounts_assets \cap accounts_intflows = {}
    /\ accounts_assets \cap accounts_extflows = {}
    /\ accounts_intflows \cap accounts_extflows = {}

C18_Witness ==
    /\ pc = "matching_done"
    /\ accounts_assets /= {}
    /\ accounts_intflows /= {}
    /\ accounts_extflows /= {}
    /\ \E i, j \in 1..Len(entries) :
          /\ i /= j
          /\ IsMatchingEntry(entries[i])
          /\ IsMatchingEntry(entries[j])
          /\ PostingAccounts(entries[i]) \cap PostingAccounts(entries[j])
                \cap accounts_extflows /= {}

\* ======================================================================
\* compute_returns
\* ======================================================================
MaxReturnsEntries == 2
MaxPrice == 2

\* The directives given to compute_returns.
ReturnsKinds == {"dividend", "deposit", "mixed"}

\* The entry lists of this specification hold one entry for a date.
ReturnsEntryLists ==
    {es \in UNION {[1..n -> {Entry(d, k) : d \in Dates, k \in ReturnsKinds}] :
                      n \in 0..MaxReturnsEntries} :
        \A i \in 1..(Len(es) - 1) : es[i].date < es[i + 1].date}

\* The price oracle: price_map[d] is the price of GOOG in USD found at or
\* before the date d; an oracle that does not know GOOG has NoPrice at
\* every date.
NoPrice == 0

PriceMaps == [Dates -> 1..MaxPrice] \cup {[d \in Dates |-> NoPrice]}

\* prices.get_inventory_market_value: USD is held without cost; GOOG is held
\* at cost in USD and is reduced to USD at the price of the date, or stays a
\* position at cost when the oracle has no price.  Positions of the same
\* key are summed and a zero position is dropped.
MarketValue(inv, date) ==
    LET price == price_map[date]
        usd == inv["USD"] + (IF price = NoPrice THEN 0 ELSE inv["GOOG"] * price)
    IN {[currency |-> "USD", cost |-> FALSE, number |-> usd] :
            x \in IF usd /= 0 THEN {TRUE} ELSE {}}
       \cup
       {[currency |-> "GOOG", cost |-> TRUE, number |-> inv["GOOG"]] :
            x \in IF price = NoPrice /\ inv["GOOG"] /= 0 THEN {TRUE} ELSE {}}

InitReturns ==
    /\ entries \in ReturnsEntryLists
    /\ accounts_assets = {AccAssets}
    /\ accounts_intflows = {AccIncome}
    /\ date_begin \in Dates \cup {None}
    /\ date_end \in Dates \cup {None}
    /\ price_map \in PriceMaps
    /\ pc = "validate"
    /\ error = NoError
    /\ it = 0
    /\ entry = 0
    /\ heap = <<>>
    /\ balance = 0
    /\ balance_begin = 0
    /\ period_begin = None
    /\ period_end = None
    /\ done = FALSE
    /\ periods = <<>>
    /\ hist = [log |-> <<>>, snap_begin |-> EmptyInventory, snaps |-> <<>>, pkind |-> <<>>]
    /\ all_returns = <<>> /\ total_returns = <<>> /\ logged = {}
    /\ PeriodIdle /\ AnnualizeIdle /\ MatchingIdle /\ DisplayIdle

\* The external-flow entries with a posting on an internal-flow account.
FlaggedIdx ==
    {i \in 1..Len(entries) :
        /\ IsExternalFlowEntry(entries[i])
        /\ \E k \in 1..Len(entries[i].postings) :
              entries[i].postings[k].account \in accounts_intflows}

ExternalFlowErrors ==
    {[msg |-> "External flow may not affect non-asset accounts", pos |-> entries[i],
      at |-> "entry"] : i \in FlaggedIdx}

\* The verification of the external flow entries.
ValidateBody(fatal) ==
    /\ pc = "validate"
    /\ IF fatal /\ FlaggedIdx /= {}
       THEN /\ pc' = "raised"
            /\ error' = "ValueError"
            /\ UNCHANGED logged
       ELSE /\ logged' = logged \cup ExternalFlowErrors
            /\ pc' = "start"
            /\ UNCHANGED error
    /\ UNCHANGED <<segvars, pvars, avars, price_map, all_returns, total_returns, mvars, dvars>>

ValidateEntriesFatal == ValidateBody(TRUE)

ValidateEntries == ValidateBody(FALSE)

\* One round of the loop over the periods; at_begin: the end balance is
\* valued at the beginning date of the period.
PeriodStepBody(at_begin) ==
    /\ pc = "done"
    /\ Len(all_returns) < Len(periods)
    /\ LET p == periods[Len(all_returns) + 1]
           mb == MarketValue(heap[p.balance_begin], p.begin_date)
           me == MarketValue(heap[p.balance_end], IF at_begin THEN p.begin_date ELSE p.end_date)
           period_returns == PeriodReturns(Single(mb), Single(me))
           num_days == p.end_date - p.begin_date
       IN /\ mktvalue_begin' = mb
          /\ mktvalue_end' = me
          /\ returns' = period_returns
          /\ logged' = logged \cup CouldNotReduce(mb, "begin") \cup CouldNotReduce(me, "end")
          /\ all_returns' = Append(all_returns, period_returns)
          /\ IF p.end_date /= p.begin_date
             THEN IF AnnualizeError(period_returns, num_days, TRUE) /= NoError
                  THEN /\ pc' = "raised"
                       /\ error' = AnnualizeError(period_returns, num_days, TRUE)
                       /\ UNCHANGED annual_returns
                  ELSE /\ annual_returns' = Annualized(period_returns, num_days)
                       /\ UNCHANGED <<pc, error>>
             ELSE /\ annual_returns' = <<>>
                  /\ UNCHANGED <<pc, error>>
    /\ UNCHANGED <<segvars, date_first, date_last, price_map, total_returns, mvars, dvars>>

PeriodStepSameDate == PeriodStepBody(TRUE)

PeriodStep == PeriodStepBody(FALSE)

\* The product of two floats.
Times(a, b) == Ratio(a.num * b.num, a.den * b.den)

\* total_return after the first n periods, missing meaning the return of a
\* period without the currency.
RECURSIVE TotalReturn(_, _, _)
TotalReturn(currency, n, missing) ==
    IF n = 0 THEN One
    ELSE Times(TotalReturn(currency, n - 1, missing),
               IF currency \in DOMAIN all_returns[n] THEN all_returns[n][currency]
               ELSE missing)

\* The piecewise returns and the dates of the result.
TotalBody(missing) ==
    /\ pc = "done"
    /\ Len(all_returns) = Len(periods)
    /\ LET currencies == UNION {DOMAIN all_returns[i] : i \in 1..Len(all_returns)}
       IN total_returns' = [c \in currencies |-> TotalReturn(c, Len(all_returns), missing)]
    /\ date_first' = periods[1].begin_date
    /\ date_last' = periods[Len(periods)].end_date
    /\ pc' = "returns_done"
    /\ UNCHANGED <<segvars, error, pvars, annual_returns, price_map, all_returns,
                   logged, mvars, dvars>>

TotalReturnsMissingAsZero == TotalBody(Ratio(0, 1))

TotalReturns == TotalBody(One)

\* One call of compute_returns.
NextReturns ==
    \/ ValidateEntries
    \/ CheckDates /\ UNCHANGED <<pvars, avars, rvars, mvars, dvars>>
    \/ FirstEntry /\ UNCHANGED <<pvars, avars, rvars, mvars, dvars>>
    \/ SkipStep /\ UNCHANGED <<pvars, avars, rvars, mvars, dvars>>
    \/ LoopHead /\ UNCHANGED <<pvars, avars, rvars, mvars, dvars>>
    \/ InnerStep /\ UNCHANGED <<pvars, avars, rvars, mvars, dvars>>
    \/ ClosePeriod /\ UNCHANGED <<pvars, avars, rvars, mvars, dvars>>
    \/ Absorb /\ UNCHANGED <<pvars, avars, rvars, mvars, dvars>>
    \/ PeriodStep
    \/ TotalReturns

SpecReturns == InitReturns /\ [][NextReturns]_allvars

\* ---------------------------------------------------------------- claims
ReturnsReturned == pc = "returns_done"

\* The return of the period i for a currency, 1.0 when it has none.
ReturnOrOne(i, currency) ==
    IF currency \in DOMAIN all_returns[i] THEN all_returns[i][currency] ELSE One

\* The product of the returns of the periods from i on, taken from the last
\* period back to the period i.
RECURSIVE ProductFrom(_, _)
ProductFrom(currency, i) ==
    IF i > Len(all_returns) THEN One
    ELSE Times(ProductFrom(currency, i + 1), ReturnOrOne(i, currency))

\* The return compute_period_returns gives for the period i of the segmenter.
ReturnsOfPeriod(i) ==
    PeriodReturns(
        Single(MarketValue(heap[periods[i].balance_begin], periods[i].begin_date)),
        Single(MarketValue(heap[periods[i].balance_end], periods[i].end_date)))

C19_ValidationOnlyReports ==
    [][pc = "validate" =>
          /\ pc' = "start"
          /\ error' = NoError
          /\ logged' = logged \cup ExternalFlowErrors
          /\ FlaggedIdx /= {} => \E m \in logged' : m.at = "entry"
          /\ UNCHANGED <<segvars, pvars, avars, price_map, all_returns, total_returns>>]_allvars

C19_Witness ==
    /\ ReturnsReturned
    /\ \E m \in logged : m.at = "entry"
    /\ total_returns /= <<>>
    /\ Len(periods) > 1

\* When date_begin is given and later than every relevant entry (there is one).
BeginAfterAllEntries ==
    /\ date_begin /= None
    /\ date_end /= None => date_begin < date_end
    /\ RelevantIdx /= {}
    /\ \A i \in RelevantIdx : entries[i].date < date_begin

MaxLiveEntries == 2

\* The calls whose end is checked.
InitLive == Init /\ Len(entries) <= MaxLiveEntries

\* The call runs to its end: a step that can be taken is taken.
SpecLive == InitLive /\ [][Next]_allvars /\ WF_allvars(Next)

Terminated == pc \in {"done", "raised"}

\* The entries iter_entries has not yielded yet.
NotYielded == {j \in RelevantIdx : j > it}

\* The entries whose postings were added to the running balance.
ConsumedIdx == {hist.log[k].idx : k \in 1..Len(hist.log)}

\* The place of a position in the order of the code.
Rank(p) ==
    CASE p = "start" -> 7
      [] p = "first" -> 6
      [] p = "skip" -> 5
      [] p = "main" -> 4
      [] p = "inner" -> 3
      [] p = "close" -> 2
      [] p = "absorb" -> 1
      [] OTHER -> 0

\* What is left to do: it decreases with every step.
Measure == 4 * Cardinality(NotYielded) + Rank(pc)

\* C21: segment_periods terminates, and it is single-pass and forward-only:
\* every step leaves less to do and never moves the iterator back; no entry
\* is added to the balance twice; at most one yielded entry is not consumed
\* yet (the lookahead entry); and every round of the outer loop that did
\* not finish the call has absorbed an entry.
C21_TerminatesSinglePass ==
    /\ [][/\ Measure' < Measure
          /\ it' >= it
          /\ entry' >= entry]_allvars
    /\ [](/\ Len(hist.log) = Cardinality(ConsumedIdx)
          /\ ConsumedIdx \subseteq RelevantIdx
          /\ {j \in RelevantIdx : j <= it} \ ConsumedIdx \subseteq {entry}
          /\ \A k \in 1..Len(periods) :
                (hist.pkind[k] = "main" /\ (k < Len(periods) \/ pc \in {"main", "inner"}))
                    => LogIdx("absorb", k) /= {})
    /\ <>Terminated

C21_Witness ==
    /\ pc = "done"
    /\ Len(periods) >= 2
    /\ Len(hist.log) = 2
    /\ \E k \in 1..Len(hist.log) : hist.log[k].phase = "absorb"
    /\ \E k \in 1..Len(hist.log) : hist.log[k].phase = "inner"

\* ======================================================================
\* segment_periods: the cuts of the timeline
\* ======================================================================
\* The relevant entries with an external flow.
ExternalIdx == {i \in RelevantIdx : IsExternalFlowEntry(entries[i])}

FirstRelevant == CHOOSE i \in RelevantIdx : \A j \in RelevantIdx : i <= j

LastRelevant == CHOOSE i \in RelevantIdx : \A j \in RelevantIdx : i >= j

\* C23: without date bounds and with a relevant entry, the call returns one
\* period for every relevant external-flow entry, and one more when the
\* last relevant entry is not an external-flow entry; period k ends at the
\* date of the k-th external-flow entry; when the first relevant entry is
\* an external flow the first period has no length and empty balances.
C23_CutsAtExternalFlows ==
    (date_begin = None /\ date_end = None /\ RelevantIdx /= {}) =>
        /\ pc /= "raised"
        /\ Returned =>
              /\ NumPeriods = Cardinality(ExternalIdx)
                                + (IF LastRelevant \in ExternalIdx THEN 0 ELSE 1)
              /\ \A k \in 1..NumPeriods :
                    \A i \in ExternalIdx :
                        Cardinality({j \in ExternalIdx : j <= i}) = k
                            => periods[k].end_date = entries[i].date
              /\ FirstRelevant \in ExternalIdx =>
                    /\ periods[1].begin_date = periods[1].end_date
                    /\ heap[periods[1].balance_begin] = EmptyInventory
                    /\ heap[periods[1].balance_end] = EmptyInventory

C23_Witness ==
    /\ Returned
    /\ date_begin = None /\ date_end = None
    /\ FirstRelevant \in ExternalIdx
    /\ LastRelevant \notin ExternalIdx
    /\ NumPeriods = 2
    /\ Cardinality(RelevantIdx) = 3

\* C24: at the absorb step the current entry is an external-flow entry,
\* and the assertion never fails.
C24_AbsorbsExternalFlow ==
    /\ pc = "absorb" => (~done /\ entry \in ExternalIdx)
    /\ error /= "AssertionError"

C24_Witness ==
    /\ pc = "absorb"
    /\ date_end /= None
    /\ Len(periods) = 2
    /\ \E i \in RelevantIdx : i > entry /\ entries[i].date >= date_end

\* ======================================================================
\* compute_returns_with_regexp
\* ======================================================================
InitRegexp ==
    /\ entries \in {es \in EntryLists : Len(es) <= MaxLiveEntries}
    /\ related_regexp \in SUBSET Accounts
    /\ date_begin \in Dates \cup {None}
    /\ date_end \in Dates \cup {None}
    /\ accounts_assets = {}
    /\ accounts_intflows = {}
    /\ accounts_extflows = {}
    /\ matching_entries = <<>>
    /\ it = 0
    /\ pc = "regexp"
    /\ error = NoError
    /\ entry = 0 /\ heap = <<>> /\ balance = 0 /\ balance_begin = 0
    /\ period_begin = None /\ period_end = None /\ done = FALSE /\ periods = <<>>
    /\ hist = [log |-> <<>>, snap_begin |-> EmptyInventory, snaps |-> <<>>, pkind |-> <<>>]
    /\ PeriodIdle /\ AnnualizeIdle /\ ReturnsIdle /\ DisplayIdle

\* prices.build_price_map(entries): the entries of the model hold no Price
\* directive, so the oracle has no price at any date.
BuildPriceMap ==
    /\ pc = "regexp"
    /\ price_map' = [d \in Dates |-> NoPrice]
    /\ pc' = "matching"
    /\ UNCHANGED <<segvars, error, pvars, avars, all_returns, total_returns, logged, mvars, dvars>>

\* The call of compute_returns with all the entries and the sets of
\* accounts find_matching returned.
CallComputeReturns ==
    /\ pc = "matching_done"
    /\ it' = 0
    /\ pc' = "validate"
    /\ UNCHANGED <<args, entry, heap, balance, balance_begin, period_begin, period_end,
                   done, periods, hist, error, pvars, avars, rvars, mvars, dvars>>

NextRegexp ==
    \/ BuildPriceMap
    \/ MatchEntry /\ UNCHANGED matchunused
    \/ ReturnMatching /\ UNCHANGED matchunused
    \/ CallComputeReturns
    \/ ValidateEntries
    \/ CheckDates /\ UNCHANGED <<pvars, avars, rvars, mvars, dvars>>
    \/ FirstEntry /\ UNCHANGED <<pvars, avars, rvars, mvars, dvars>>
    \/ SkipStep /\ UNCHANGED <<pvars, avars, rvars, mvars, dvars>>
    \/ LoopHead /\ UNCHANGED <<pvars, avars, rvars, mvars, dvars>>
    \/ InnerStep /\ UNCHANGED <<pvars, avars, rvars, mvars, dvars>>
    \/ ClosePeriod /\ UNCHANGED <<pvars, avars, rvars, mvars, dvars>>
    \/ Absorb /\ UNCHANGED <<pvars, avars, rvars, mvars, dvars>>
    \/ PeriodStep
    \/ TotalReturns

SpecRegexp == InitRegexp /\ [][NextRegexp]_allvars

\* ---------------------------------------------------------------- claims
\* The matching entries that touch an asset account: what the segmenter
\* keeps of the list matching_entries.
MatchingAssetIdx ==
    {i \in 1..Len(entries) : IsMatchingEntry(entries[i]) /\ IsRelevant(entries[i])}

\* C25: once find_matching has returned, the entries the segmenter keeps of
\* the full list are the matching entries that touch an asset account, and
\* the periods are those of the matching entries: without date_begin the
\* first period begins at the date of the first matching entry that touches
\* an asset account.
C25_SegmentsMatchingEntries ==
    pc \notin {"regexp", "matching"} =>
        /\ RelevantIdx = MatchingAssetIdx
        /\ (date_begin = None /\ periods /= <<>>) =>
              /\ MatchingAssetIdx /= {}
              /\ periods[1].begin_date =
                    entries[CHOOSE i \in MatchingAssetIdx :
                               \A j \in MatchingAssetIdx : i <= j].date

\* ======================================================================
\* DisplayContextBuilder
\* ======================================================================
MaxUpdates == 2
MaxDigits == 2
MaxExponent == 2

\* The key None of the dicts of currencies.
NoneKey == "None"

CurrencyKeys == {NoneKey, "USD"}

\* A Decimal number is kept as its number.as_tuple(): a sign, the digits of
\* the coefficient (no leading zero but for zero itself) and an exponent.
Digits == {0, 1}

Coefficients ==
    {ds \in UNION {[1..n -> Digits] : n \in 1..MaxDigits} : Len(ds) > 1 => ds[1] /= 0}

Exponents == (0 - MaxExponent)..1

Decimals == [sign : {0}, digits : Coefficients, exponent : Exponents]

\* misc_utils.Distribution: the number of times every value was seen.
Distribution == <<>>

DistUpdate(dist, value) ==
    IF value \in DOMAIN dist THEN [dist EXCEPT ![value] = @ + 1]
    ELSE (value :> 1) @@ dist

\* Distribution.min: the smallest value seen.
DistMin(dist) == CHOOSE v \in DOMAIN dist : \A w \in DOMAIN dist : v <= w

\* Distribution.mode: a value seen most often.
DistModes(dist) == {v \in DOMAIN dist : \A w \in DOMAIN dist : dist[v] >= dist[w]}

\* BuilderCurrencyInfo()
BuilderCurrencyInfo == [precision_dist |-> Distribution, max_int_digits |-> 1]

Max(a, b) == IF a >= b THEN a ELSE b

\* The segmenter and the functions on its periods are not running.
ReturnsAllIdle ==
    /\ SegmentIdle /\ PeriodIdle /\ AnnualizeIdle /\ ReturnsIdle /\ MatchingIdle
    /\ error = NoError

returnsvars == <<segvars, error, pvars, avars, rvars, mvars>>

InitBuilder ==
    /\ ReturnsAllIdle
    /\ pc = "builder"
    /\ builder_infos = <<>>
    /\ dcontext = <<>>
    /\ dhist = [updates |-> {}, last |-> [op |-> "init", update |-> TRUE], calls |-> 0,
                currency |-> NoneKey]

\* DisplayContextBuilder.update; kept: max_int_digits is not assigned.
UpdateBody(number, currency, kept) ==
    /\ pc = "builder"
    /\ dhist.calls < MaxUpdates
    /\ LET num_tuple == number
           cinfo == IF currency \in DOMAIN builder_infos THEN builder_infos[currency]
                    ELSE BuilderCurrencyInfo
           num_int_digits == Len(num_tuple.digits) + num_tuple.exponent
       IN builder_infos' =
             (currency :>
                 [precision_dist |-> DistUpdate(cinfo.precision_dist, num_tuple.exponent),
                  max_int_digits |-> IF kept THEN cinfo.max_int_digits
                                     ELSE Max(cinfo.max_int_digits, num_int_digits)])
             @@ builder_infos
    /\ dhist' = [dhist EXCEPT
                    !.updates = @ \cup {[number |-> number, currency |-> currency]},
                    !.last = [op |-> "builder_update", update |-> FALSE],
                    !.calls = @ + 1,
                    !.currency = currency]
    /\ UNCHANGED <<pc, dcontext>>

BuilderUpdateKept == \E number \in Decimals, currency \in CurrencyKeys :
                        UpdateBody(number, currency, TRUE)

BuilderUpdate == \E number \in Decimals, currency \in CurrencyKeys :
                    UpdateBody(number, currency, FALSE)

\* ======================================================================
\* DisplayContext
\* ======================================================================
MaxCalls == 2
MaxPrecision == 2

\* A precision is FULL_PRECISION or an int.
FULL_PRECISION == [full |-> TRUE, digits |-> 0]

IntPrecision(n) == [full |-> FALSE, digits |-> n]

\* The format string of a precision: '{:' signs_str comma_str '}' at full
\* precision and '{:' signs_str comma_str '.' precision 'f}' otherwise, kept
\* as its parts.
FormatString(precision, commas, signs) ==
    [signs_str |-> IF signs THEN " " ELSE "",
     comma_str |-> IF commas THEN "," ELSE "",
     fixed |-> IF precision = FULL_PRECISION THEN "" ELSE "f",
     precision |-> IF precision = FULL_PRECISION THEN 0 ELSE precision.digits]

\* DisplayContext._formats_dict: the formats (the default is formats[None]).
FormatsDict(precision_dict, commas, signs) ==
    [currency \in DOMAIN precision_dict |->
        FormatString(precision_dict[currency], commas, signs)]

\* DisplayContext.update, on the value of the object.
Updated(dc) ==
    [dc EXCEPT
        !.formats = FormatsDict(dc.precision, dc.commas, dc.signs),
        !.formats_default = FormatsDict(dc.precision, dc.commas, dc.signs)[NoneKey],
        !.formats_max = FormatsDict(dc.precision_max, dc.commas, dc.signs),
        !.formats_max_default = FormatsDict(dc.precision_max, dc.commas, dc.signs)[NoneKey]]

\* An update that leaves the tables of the maximum precisions alone.
UpdatedFormatsOnly(dc) ==
    [dc EXCEPT
        !.formats = FormatsDict(dc.precision, dc.commas, dc.signs),
        !.formats_default = FormatsDict(dc.precision, dc.commas, dc.signs)[NoneKey]]

\* DisplayContext()
NewDisplayContext ==
    Updated([commas |-> FALSE,
             signs |-> TRUE,
             precision |-> (NoneKey :> FULL_PRECISION),
             precision_max |-> (NoneKey :> FULL_PRECISION),
             formats |-> <<>>,
             formats_max |-> <<>>,
             formats_default |-> <<>>,
             formats_max_default |-> <<>>])

Called(op, update) == [dhist EXCEPT !.last = [op |-> op, update |-> update],
                                    !.calls = @ + 1]

Construct ==
    /\ pc = "builder"
    /\ dcontext' = NewDisplayContext
    /\ dhist' = [dhist EXCEPT !.last = [op |-> "init", update |-> TRUE]]
    /\ pc' = "context"
    /\ UNCHANGED builder_infos

\* DisplayContextBuilder.build
Build ==
    /\ pc = "builder"
    /\ \E mode \in [DOMAIN builder_infos -> Exponents] :
          /\ \A c \in DOMAIN builder_infos :
                mode[c] \in DistModes(builder_infos[c].precision_dist)
          /\ dcontext' =
                Updated([NewDisplayContext EXCEPT
                    !.precision =
                        [c \in DOMAIN builder_infos |-> IntPrecision(0 - mode[c])] @@ @,
                    !.precision_max =
                        [c \in DOMAIN builder_infos |->
                            IntPrecision(0 - DistMin(builder_infos[c].precision_dist))] @@ @])
    /\ dhist' = [dhist EXCEPT !.last = [op |-> "build", update |-> TRUE]]
    /\ pc' = "context"
    /\ UNCHANGED builder_infos

\* A method of the context: changed is the object after the assignment of
\* the method; partial: update() leaves formats_max as it is.
CallBody(op, changed, update, partial) ==
    /\ pc = "context"
    /\ dhist.calls < MaxCalls
    /\ dcontext' = IF ~update THEN changed
                   ELSE IF partial THEN UpdatedFormatsOnly(changed)
                   ELSE Updated(changed)
    /\ dhist' = Called(op, update)
    /\ UNCHANGED <<pc, builder_infos>>

SetCommas ==
    \E commas \in BOOLEAN, update \in BOOLEAN :
        CallBody("set_commas", [dcontext EXCEPT !.commas = commas], update, FALSE)

SetPrecision ==
    \E precision \in 0..MaxPrecision, currency \in CurrencyKeys, update \in BOOLEAN :
        CallBody("set_precision",
                 [dcontext EXCEPT !.precision = (currency :> IntPrecision(precision)) @@ @],
                 update, FALSE)

SetPrecisionMaxFormatsOnly ==
    \E precision \in 0..MaxPrecision, currency \in CurrencyKeys, update \in BOOLEAN :
        CallBody("set_precision_max",
                 [dcontext EXCEPT !.precision_max = (currency :> IntPrecision(precision)) @@ @],
                 update, TRUE)

SetPrecisionMax ==
    \E precision \in 0..MaxPrecision, currency \in CurrencyKeys, update \in BOOLEAN :
        CallBody("set_precision_max",
                 [dcontext EXCEPT !.precision_max = (currency :> IntPrecision(precision)) @@ @],
                 update, FALSE)

Update == CallBody("update", dcontext, TRUE, FALSE)

\* ------------------------------------------------------------ specifications
\* A builder that is given numbers and then builds a context.
NextBuilder ==
    \/ BuilderUpdate /\ UNCHANGED returnsvars
    \/ Build /\ UNCHANGED returnsvars

SpecBuilder == InitBuilder /\ [][NextBuilder]_allvars

\* The builders a context is built from: an empty one, and those that were
\* given one number.
UpdatedOnce(number, currency) ==
    (currency :> [precision_dist |-> DistUpdate(Distribution, number.exponent),
                  max_int_digits |-> Max(1, Len(number.digits) + number.exponent)])

InitDisplay ==
    /\ ReturnsAllIdle
    /\ pc = "builder"
    /\ builder_infos \in {<<>>} \cup {UpdatedOnce(number, currency) :
                                        number \in {n \in Decimals : n.digits = <<1>>},
                                        currency \in CurrencyKeys}
    /\ dcontext = <<>>
    /\ dhist = [updates |-> {}, last |-> [op |-> "init", update |-> TRUE], calls |-> 0,
                currency |-> NoneKey]

\* A context that is constructed or built, and then changed by its methods.
NextDisplay ==
    \/ Construct /\ UNCHANGED returnsvars
    \/ Build /\ UNCHANGED returnsvars
    \/ SetCommas /\ UNCHANGED returnsvars
    \/ SetPrecision /\ UNCHANGED returnsvars
    \/ SetPrecisionMax /\ UNCHANGED returnsvars
    \/ Update /\ UNCHANGED returnsvars

SpecDisplay == InitDisplay /\ [][NextDisplay]_allvars

\* ---------------------------------------------------------------- claims
\* len(digits) + exponent of the numbers passed for a currency.
IntDigitsPassed(currency) ==
    {Len(u.number.digits) + u.number.exponent :
        u \in {v \in dhist.updates : v.currency = currency}}

MaxOf(S) == CHOOSE m \in S : \A n \in S : m >= n

\* C22: max_int_digits of a currency is the maximum of 1 and of the number
\* of digits plus the exponent of the numbers passed for it; the builder
\* knows the currencies numbers were passed for; an update never lowers a
\* max_int_digits, and changes nothing of the other currencies.
C22_MaxIntDigits ==
    /\ [](/\ DOMAIN builder_infos = {u.currency : u \in dhist.updates}
          /\ \A c \in DOMAIN builder_infos :
                builder_infos[c].max_int_digits = MaxOf({1} \cup IntDigitsPassed(c)))
    /\ [][\A c \in DOMAIN builder_infos :
             /\ c \in DOMAIN builder_infos'
             /\ builder_infos'[c].max_int_digits >= builder_infos[c].max_int_digits
             /\ dhist'.currency /= c => builder_infos'[c] = builder_infos[c]]_allvars

C22_Witness ==
    /\ pc = "builder"
    /\ DOMAIN builder_infos = CurrencyKeys
    /\ builder_infos["USD"].max_int_digits = MaxDigits + 1
    /\ builder_infos[NoneKey].max_int_digits = 1
    /\ \E u \in dhist.updates :
          u.currency = NoneKey /\ Len(u.number.digits) + u.number.exponent < 1

\* The format tables of a context.
FormatTables(dc) ==
    <<dc.formats, dc.formats_default, dc.formats_max, dc.formats_max_default>>

\* A table of formats is in step with a dict of precisions.
InStep(formats, default, precision_dict, dc) ==
    /\ DOMAIN formats = DOMAIN precision_dict
    /\ NoneKey \in DOMAIN formats
    /\ default = formats[NoneKey]
    /\ \A c \in DOMAIN formats :
          /\ formats[c].comma_str = (IF dc.commas THEN "," ELSE "")
          /\ formats[c].signs_str = (IF dc.signs THEN " " ELSE "")
          /\ IF precision_dict[c] = FULL_PRECISION
             THEN formats[c].fixed = ""
             ELSE formats[c].fixed = "f" /\ formats[c].precision = precision_dict[c].digits

\* C26: after the construction, after build and after every method called
\* with update=True, formats and formats_max have the keys of precision
\* and precision_max, every format encodes the precision of its key and
\* the commas setting, and the key None is there; a setter called with
\* update=False leaves the format tables as they were.
C26_FormatsInStep ==
    /\ []((pc = "context" /\ dhist.last.update) =>
             /\ InStep(dcontext.formats, dcontext.formats_default, dcontext.precision,
                       dcontext)
             /\ InStep(dcontext.formats_max, dcontext.formats_max_default,
                       dcontext.precision_max, dcontext))
    /\ []((pc = "context") =>
             /\ NoneKey \in DOMAIN dcontext.precision
             /\ NoneKey \in DOMAIN dcontext.precision_max
             /\ NoneKey \in DOMAIN dcontext.formats
             /\ NoneKey \in DOMAIN dcontext.formats_max)
    /\ [][(pc = "context" /\ ~dhist'.last.update) =>
             FormatTables(dcontext') = FormatTables(dcontext)]_allvars

C26_Witness ==
    /\ pc = "context"
    /\ dhist.last = [op |-> "set_precision_max", update |-> TRUE]
    /\ dhist.calls = MaxCalls
    /\ builder_infos /= <<>>
    /\ dcontext.commas
    /\ DOMAIN dcontext.formats_max = CurrencyKeys
    /\ dcontext.formats_max /= dcontext.formats
    /\ dcontext.precision_max["USD"] = IntPrecision(MaxPrecision)

====
